---- MODULE Spec2Model ----
(***************************************************************************)
(* Compression middleware of HybridBuffer (package compression).           *)
(*                                                                         *)
(* The adapter (Middleware) holds an algorithm and a level.  Writer(sink)  *)
(* and Reader(source) dispatch on the algorithm and bind a codec handle of *)
(* klauspost/compress to the sink or source.  The codecs themselves are    *)
(* libraries; they are modelled here by their container format: an         *)
(* optional header, run-length coded data blocks, and an optional trailer  *)
(* that is written only when the encoder is closed.  A compressed stream   *)
(* is a sequence of such tokens.                                           *)
(***************************************************************************)
EXTENDS Integers, Sequences, FiniteSets, TLC

(* ---- bounds of the model ---- *)
MaxLen == 3
BlockSize == 2
MaxOpts == 2
MaxWrites == 3

Byte == {0, 1}

(* ---- Algorithm (compression.go 19-32) and the value of the test ---- *)
Gzip == 0
Zstd == 1
S2 == 2
Snappy == 3
Zlib == 4
Flate == 5
BadAlgorithm == 999

Algorithms == {Gzip, Zstd, S2, Snappy, Zlib, Flate}
AlgorithmValues == Algorithms \cup {BadAlgorithm}

(* ---- Level (compression.go 37-46) ---- *)
Fastest == 0
Default == 1
Better == 2
Best == 3

Levels == {Fastest, Default, Better, Best}
\* Level is an int: one value outside the enumeration stands for all of them
LevelValues == Levels \cup {Best + 1}

(* ---- native levels of the codec libraries, as named at the call sites ---- *)
BestSpeed == 1
DefaultCompression == -1
BestCompression == 9
SpeedFastest == 1
SpeedDefault == 2
SpeedBetterCompression == 3
SpeedBestCompression == 4

DeflateFamily == {Gzip, Zlib, Flate}

(* ---- sequences of at most n elements of S ---- *)
SeqsUpTo(S, n) == UNION {[1..k -> S] : k \in 0..n}

RECURSIVE Sum(_)
Sum(bs) == IF bs = <<>> THEN 0 ELSE Head(bs) + Sum(Tail(bs))

(* ---- New and WithLevel ---- *)
\* an Option is the closure WithLevel(level); applying it sets m.level
WithLevel(level, mw) == [mw EXCEPT !.level = level]

\* mutant: only the first option is applied
ApplyOptsFirstOnly(mw, opts) ==
  IF opts = <<>> THEN mw ELSE WithLevel(Head(opts), mw)

RECURSIVE ApplyOpts(_, _)
ApplyOpts(mw, opts) ==
  IF opts = <<>> THEN mw
  ELSE ApplyOpts(WithLevel(Head(opts), mw), Tail(opts))

New(algorithm, opts) ==
  ApplyOpts([algorithm |-> algorithm, level |-> Default], opts)

(* ---- the container formats ---- *)
\* every format but raw deflate starts with a header (magic, stream identifier)
HasHeader(alg) == alg # Flate
\* gzip and zlib write the header in the first Write call, the others with
\* the first block they put out
EagerHeader(alg) == alg \in {Gzip, Zlib}
\* the block/frame formats end with a trailer (final block, checksum) that
\* only Close writes; the s2 and snappy stream formats have none
HasTrailer(alg) == alg \in {Gzip, Zstd, Zlib, Flate}
\* the trailer carries a checksum of the plaintext (raw deflate: none)
Checksummed(alg) == alg \in {Gzip, Zstd, Zlib}

\* run-length coding: the compressed form of a block
RECURSIVE RLE(_)
RLE(bs) ==
  IF bs = <<>> THEN <<>>
  ELSE LET rest == RLE(Tail(bs)) IN
       IF rest # <<>> /\ rest[1][1] = Head(bs)
       THEN << <<Head(bs), rest[1][2] + 1>> >> \o Tail(rest)
       ELSE << <<Head(bs), 1>> >> \o rest

\* a stored block (native level 0 of the deflate family): no run is merged
Stored(bs) == [i \in 1..Len(bs) |-> <<bs[i], 1>>]

RECURSIVE Repeat(_, _)
Repeat(b, n) == IF n = 0 THEN <<>> ELSE <<b>> \o Repeat(b, n - 1)

RECURSIVE Expand(_)
Expand(runs) ==
  IF runs = <<>> THEN <<>>
  ELSE Repeat(Head(runs)[1], Head(runs)[2]) \o Expand(Tail(runs))

Hdr(alg) == [k |-> "hdr", a |-> alg, d |-> <<>>, n |-> 0, c |-> 0]
Blk(alg, stored, bs) ==
  [k |-> "blk", a |-> alg, d |-> IF stored THEN Stored(bs) ELSE RLE(bs),
   n |-> 0, c |-> 0]
End(alg, written) ==
  [k |-> "end", a |-> alg, d |-> <<>>,
   n |-> IF Checksummed(alg) THEN Len(written) ELSE 0,
   c |-> IF Checksummed(alg) THEN Sum(written) ELSE 0]
\* bytes that are no part of any of the formats
Junk == [k |-> "junk", a |-> 0, d |-> <<>>, n |-> 0, c |-> 0]

(* ---- the wrapper a Writer call returns, and the sink it is bound to ---- *)
\* st: none, open, closed, panic.  written: the plaintext taken so far, in
\* nw Write calls; pending: the part of it still in the encoder's buffer.
\* post: the result of the latest Write after Close.
NoWriter ==
  [st |-> "none", alg |-> 0, nlevel |-> 0, hdr |-> FALSE, msg |-> "",
   hasClose |-> FALSE, written |-> <<>>, nw |-> 0, pending |-> <<>>,
   sink |-> <<>>, post |-> "none"]

Panic(w, msg) == [w EXCEPT !.st = "panic", !.msg = msg]

\* a fresh encoder bound to the sink of w.  Every writer returned has a
\* Close: four through the wrapper structs, s2 and snappy of their own.
Encoder(w, alg, nlevel) ==
  [w EXCEPT !.st = "open", !.alg = alg, !.nlevel = nlevel, !.hasClose = TRUE]

\* mutant: Better is given the native maximum
DeflateLevelBetterIsBest(level) ==
  CASE level = Fastest -> BestSpeed
    [] level = Default -> DefaultCompression
    [] level = Better -> BestCompression
    [] level = Best -> BestCompression
    [] OTHER -> 0

\* the switch on m.level of the gzip, zlib and flate writers; no case of an
\* out-of-range level matches and "var level int" keeps its zero value
DeflateLevel(level) ==
  CASE level = Fastest -> BestSpeed
    [] level = Default -> DefaultCompression
    [] level = Better -> BestCompression - 1
    [] level = Best -> BestCompression
    [] OTHER -> 0

\* mutant: the switch has a default case that picks the default speed
ZstdLevelDefaulting(level) ==
  CASE level = Fastest -> SpeedFastest
    [] level = Default -> SpeedDefault
    [] level = Better -> SpeedBetterCompression
    [] level = Best -> SpeedBestCompression
    [] OTHER -> SpeedDefault

\* the switch on m.level of the zstd writer
ZstdLevel(level) ==
  CASE level = Fastest -> SpeedFastest
    [] level = Default -> SpeedDefault
    [] level = Better -> SpeedBetterCompression
    [] level = Best -> SpeedBestCompression
    [] OTHER -> 0

createGzipWriter(mw, w) == Encoder(w, Gzip, DeflateLevel(mw.level))

\* zstd.NewWriter rejects an encoder level outside its four speeds
createZstdWriter(mw, w) ==
  LET level == ZstdLevel(mw.level) IN
  IF level \notin SpeedFastest..SpeedBestCompression
  THEN Panic(w, "failed to create zstd writer")
  ELSE Encoder(w, Zstd, level)

\* s2.NewWriter(w) and snappy.NewBufferedWriter(w) take no level
createS2Writer(mw, w) == Encoder(w, S2, 0)
createSnappyWriter(mw, w) == Encoder(w, Snappy, 0)
createZlibWriter(mw, w) == Encoder(w, Zlib, DeflateLevel(mw.level))
createFlateWriter(mw, w) == Encoder(w, Flate, DeflateLevel(mw.level))

\* mutant: the default case falls back to gzip
WriterOfDefaultGzip(mw, w) ==
  CASE mw.algorithm = Zstd -> createZstdWriter(mw, w)
    [] mw.algorithm = S2 -> createS2Writer(mw, w)
    [] mw.algorithm = Snappy -> createSnappyWriter(mw, w)
    [] mw.algorithm = Zlib -> createZlibWriter(mw, w)
    [] mw.algorithm = Flate -> createFlateWriter(mw, w)
    [] OTHER -> createGzipWriter(mw, w)

\* Middleware.Writer: the switch on m.algorithm
WriterOf(mw, w) ==
  CASE mw.algorithm = Gzip -> createGzipWriter(mw, w)
    [] mw.algorithm = Zstd -> createZstdWriter(mw, w)
    [] mw.algorithm = S2 -> createS2Writer(mw, w)
    [] mw.algorithm = Snappy -> createSnappyWriter(mw, w)
    [] mw.algorithm = Zlib -> createZlibWriter(mw, w)
    [] mw.algorithm = Flate -> createFlateWriter(mw, w)
    [] OTHER -> Panic(w, "unsupported compression algorithm")

(* ---- the encoder behind the wrapper ---- *)
IsStored(e) == e.alg \in DeflateFamily /\ e.nlevel = 0

WithHdr(e) ==
  IF HasHeader(e.alg) /\ ~e.hdr
  THEN [e EXCEPT !.sink = Append(@, Hdr(e.alg)), !.hdr = TRUE]
  ELSE e

PutBlock(e, bs) ==
  [WithHdr(e) EXCEPT !.sink = Append(@, Blk(e.alg, IsStored(e), bs))]

\* full blocks leave the buffer; the rest waits for more data or for Close
RECURSIVE Drain(_)
Drain(e) ==
  IF Len(e.pending) < BlockSize THEN e
  ELSE Drain([PutBlock(e, SubSeq(e.pending, 1, BlockSize)) EXCEPT
                !.pending = SubSeq(e.pending, BlockSize + 1, Len(e.pending))])

\* mutant: every Write starts the buffer anew
EncWriteReset(e, p) ==
  LET h == IF EagerHeader(e.alg) THEN WithHdr(e) ELSE e IN
  Drain([h EXCEPT !.pending = p, !.written = @ \o p, !.nw = @ + 1])

\* Write of the embedded encoder (promoted through the wrapper struct)
EncWrite(e, p) ==
  LET h == IF EagerHeader(e.alg) THEN WithHdr(e) ELSE e IN
  Drain([h EXCEPT !.pending = @ \o p, !.written = @ \o p, !.nw = @ + 1])

\* Close of the embedded encoder: flush the buffer, then write the trailer.
\* A zstd encoder that was given no byte writes nothing at all.
EncClose(e) ==
  LET flushed == IF e.pending = <<>> THEN e
                 ELSE [PutBlock(e, e.pending) EXCEPT !.pending = <<>>]
      ended == IF ~HasTrailer(e.alg) \/ (e.alg = Zstd /\ ~flushed.hdr)
               THEN flushed
               ELSE [WithHdr(flushed) EXCEPT
                       !.sink = Append(@, End(e.alg, e.written))]
  IN [ended EXCEPT !.st = "closed"]

\* mutant: Close returns nil and leaves the encoder alone
WriteCloserCloseNoFlush(w) == [w EXCEPT !.st = "closed"]

\* gzipWriteCloser.Close, zstdWriteCloser.Close, zlibWriteCloser.Close,
\* flateWriteCloser.Close: each returns the embedded encoder's Close.  The
\* s2 and snappy writers are returned unwrapped and bring their own Close.
WriteCloserClose(w) == EncClose(w)

(* ---- the wrapper a Reader call returns ---- *)
\* st: none, open, eof, err, panic.  fr: the decoder's place in the
\* container (start: before a header, body: in a member, done: after a
\* trailer).  ek: the layer that failed (stream: the compressed data,
\* frame: header or trailer).  last: the result of the latest Read, post:
\* that of the latest Read after Close, rel: that of the latest Close.
NoReader ==
  [st |-> "none", alg |-> 0, src |-> <<>>, pos |-> 1, out |-> <<>>,
   fr |-> "start", base |-> 0, hasClose |-> FALSE, released |-> FALSE,
   closed |-> FALSE, ek |-> "none", msg |-> "", last |-> "none",
   post |-> "none", rel |-> "none"]

ReaderPanic(src, msg) ==
  [NoReader EXCEPT !.st = "panic", !.src = src, !.msg = msg]

\* a fresh decoder bound to src that parses the header lazily, at a Read
Decoder(alg, src, hasClose) ==
  [NoReader EXCEPT !.st = "open", !.alg = alg, !.src = src,
                   !.hasClose = hasClose,
                   !.fr = IF HasHeader(alg) THEN "start" ELSE "body"]

\* gzip.NewReader and zlib.NewReader read the header before they return
HeaderParsed(alg, src, hasClose) ==
  [Decoder(alg, src, hasClose) EXCEPT !.pos = 2, !.fr = "body"]

\* mutant: the error of gzip.NewReader is dropped
createGzipReaderUnchecked(mw, src) == HeaderParsed(Gzip, src, TRUE)

\* returns the bare *gzip.Reader, which has a Close of its own
createGzipReader(mw, src) ==
  IF src = <<>> \/ src[1] # Hdr(Gzip)
  THEN ReaderPanic(src, "failed to create gzip reader")
  ELSE HeaderParsed(Gzip, src, TRUE)

\* zstd.NewReader(r) with no option gives no error; wrapped in zstdReadCloser
createZstdReader(mw, src) == Decoder(Zstd, src, TRUE)

\* s2.NewReader and snappy.NewReader are returned as they are: a Reader of
\* these packages has no Close method
createS2Reader(mw, src) == Decoder(S2, src, FALSE)
createSnappyReader(mw, src) == Decoder(Snappy, src, FALSE)

createZlibReader(mw, src) ==
  IF src = <<>> \/ src[1] # Hdr(Zlib)
  THEN ReaderPanic(src, "failed to create zlib reader")
  ELSE HeaderParsed(Zlib, src, TRUE)

createFlateReader(mw, src) == Decoder(Flate, src, TRUE)

\* mutant: the Zlib case returns the reader of the case below it
ReaderOfZlibAsFlate(mw, src) ==
  CASE mw.algorithm = Gzip -> createGzipReader(mw, src)
    [] mw.algorithm = Zstd -> createZstdReader(mw, src)
    [] mw.algorithm = S2 -> createS2Reader(mw, src)
    [] mw.algorithm = Snappy -> createSnappyReader(mw, src)
    [] mw.algorithm = Zlib -> createFlateReader(mw, src)
    [] mw.algorithm = Flate -> createFlateReader(mw, src)
    [] OTHER -> ReaderPanic(src, "unsupported compression algorithm")

\* Middleware.Reader: the switch on m.algorithm
ReaderOf(mw, src) ==
  CASE mw.algorithm = Gzip -> createGzipReader(mw, src)
    [] mw.algorithm = Zstd -> createZstdReader(mw, src)
    [] mw.algorithm = S2 -> createS2Reader(mw, src)
    [] mw.algorithm = Snappy -> createSnappyReader(mw, src)
    [] mw.algorithm = Zlib -> createZlibReader(mw, src)
    [] mw.algorithm = Flate -> createFlateReader(mw, src)
    [] OTHER -> ReaderPanic(src, "unsupported compression algorithm")

(* ---- the decoder behind the wrapper ---- *)
Fail(d, kind) == [d EXCEPT !.st = "err", !.ek = kind, !.last = "err"]

\* where the source may end: an empty zstd, s2 or snappy stream is the
\* empty data; s2 and snappy end at any chunk boundary; gzip and zstd end
\* after a complete member or frame
EndsCleanly(d) ==
  \/ d.fr = "start" /\ d.alg \in {Zstd, S2, Snappy}
  \/ d.fr = "body" /\ d.alg \in {S2, Snappy}
  \/ d.fr = "done" /\ d.alg \in {Gzip, Zstd}

ChecksumOk(d, tok) ==
  Checksummed(d.alg) =>
    /\ tok.n = Len(d.out) - d.base
    /\ tok.c = Sum(SubSeq(d.out, d.base + 1, Len(d.out)))

\* one Read call of the decoder
RECURSIVE DecRead(_)
DecRead(d) ==
  IF d.closed THEN [d EXCEPT !.last = "err"]
  ELSE IF d.st # "open" THEN [d EXCEPT !.last = d.st]
  ELSE IF d.pos > Len(d.src)
  THEN IF EndsCleanly(d) THEN [d EXCEPT !.st = "eof", !.last = "eof"]
       ELSE Fail(d, IF d.fr = "body" THEN "stream" ELSE "frame")
  ELSE LET tok == d.src[d.pos]
           next == [d EXCEPT !.pos = d.pos + 1] IN
       IF d.fr # "body"
       THEN \* a header is due: of the stream, or of a further member
            IF tok = Hdr(d.alg) /\ ~(d.alg = Zlib /\ d.fr = "done")
            THEN DecRead([next EXCEPT !.fr = "body", !.base = Len(d.out)])
            ELSE Fail(d, "frame")
       ELSE IF tok.k = "blk" /\ tok.a = d.alg
       THEN [next EXCEPT !.out = @ \o Expand(tok.d), !.last = "data"]
       ELSE IF tok.k = "end" /\ tok.a = d.alg /\ HasTrailer(d.alg)
       THEN IF ~ChecksumOk(d, tok) THEN Fail(d, "frame")
            ELSE IF d.alg \in {Zlib, Flate}
            THEN \* these stop at the trailer and read no further
                 [next EXCEPT !.fr = "done", !.st = "eof", !.last = "eof"]
            ELSE DecRead([next EXCEPT !.fr = "done"])
       ELSE Fail(d, "stream")

\* Read of the wrapper: promoted from the embedded decoder
ReaderRead(d) ==
  LET x == DecRead(d) IN IF d.released THEN [x EXCEPT !.post = x.last] ELSE x

\* (*gzip.Reader).Close returns the inflater's Close: its error, if it has
\* one, and nothing changes
gzipReaderClose(d) == [d EXCEPT !.rel = IF d.ek = "stream" THEN "err" ELSE "nil"]

\* mutant: Close returns the error the decoder holds
zstdReadCloserCloseErr(d) ==
  [d EXCEPT !.closed = TRUE, !.rel = IF d.st = "err" THEN "err" ELSE "nil"]

\* zstdReadCloser.Close: r.Decoder.Close(); return nil
zstdReadCloserClose(d) == [d EXCEPT !.closed = TRUE, !.rel = "nil"]

\* zlibReadCloser.Close returns the zlib reader's Close: its error, if it
\* has one; otherwise the reader's state is set to the inflater's, nil even
\* at end-of-stream, and the reader will look for the trailer again
zlibReadCloserClose(d) ==
  IF d.st = "err" THEN [d EXCEPT !.rel = "err"]
  ELSE [d EXCEPT !.rel = "nil", !.st = "open"]

\* flateReadCloser.Close returns the inflater's Close
flateReadCloserClose(d) == [d EXCEPT !.rel = IF d.st = "err" THEN "err" ELSE "nil"]

ReaderClose(d) ==
  [(CASE d.alg = Gzip -> gzipReaderClose(d)
      [] d.alg = Zstd -> zstdReadCloserClose(d)
      [] d.alg = Zlib -> zlibReadCloserClose(d)
      [] d.alg = Flate -> flateReadCloserClose(d))
   EXCEPT !.released = TRUE]

(* ---- the sources a caller may hand to Reader ---- *)
Flip(tok) ==
  IF tok.k = "blk"
  THEN [tok EXCEPT !.d = << <<1 - tok.d[1][1], tok.d[1][2]>> >> \o Tail(tok.d)]
  ELSE IF tok.k = "end" THEN [tok EXCEPT !.c = tok.c + 1]
  ELSE Junk

\* the sink's bytes, and what damage makes of them: cut short, one part
\* overwritten, one part altered, bytes appended
Damaged(sink) ==
  {SubSeq(sink, 1, k) : k \in 0..(Len(sink) - 1)}
    \cup {[sink EXCEPT ![i] = Junk] : i \in 1..Len(sink)}
    \cup {[sink EXCEPT ![i] = Flip(sink[i])] : i \in 1..Len(sink)}
    \cup {sink \o <<Junk>>, <<Junk>>}

(* ---- whole runs, as the tests make them ---- *)
\* io.ReadAll(decompressReader): Read until end-of-stream or an error
RECURSIVE ReadAll(_)
ReadAll(d) == IF d.st = "open" THEN ReadAll(DecRead(d)) ELSE d

\* m.Reader(bytes.NewReader(src)), then io.ReadAll
Decompress(mw, src) ==
  LET r == ReaderOf(mw, src) IN IF r.st = "panic" THEN r ELSE ReadAll(r)

\* m.Writer(&buf), one Write of all of bs, Close
Compress(mw, bs) ==
  LET w == WriterOf(mw, NoWriter) IN
  IF w.st = "panic" THEN w ELSE WriteCloserClose(EncWrite(w, bs))

(* ---- state ---- *)
\* m: the adapter.  args: the arguments of the New call that made it.
\* writers[s], readers[s]: the writer wrapper (with its sink) and the reader
\* wrapper (with its source) of session s.
VARIABLES m, args, writers, readers

vars == <<m, args, writers, readers>>

Sessions == {"s1", "s2"}

NewCall(algorithm, opts) ==
  /\ m' = New(algorithm, opts)
  /\ args' = [algorithm |-> algorithm, opts |-> opts]

Init ==
  /\ \E a \in AlgorithmValues, opts \in SeqsUpTo(LevelValues, 1) :
       /\ m = New(a, opts)
       /\ args = [algorithm |-> a, opts |-> opts]
  /\ writers = [s \in Sessions |-> NoWriter]
  /\ readers = [s \in Sessions |-> NoReader]

\* mutant: the adapter keeps one encoder and hands it out again, with
\* whatever the session before left in its buffer
WriterPooled(s) ==
  /\ writers[s].st \in {"none", "panic"}
  /\ readers[s].st = "none"
  /\ \E t \in Sessions :
       writers' = [writers EXCEPT
                     ![s] = [WriterOf(m, @) EXCEPT !.pending = writers[t].pending]]
  /\ UNCHANGED <<m, args, readers>>

\* compressWriter := m.Writer(&compressedBuf)
Writer(s) ==
  /\ writers[s].st \in {"none", "panic"}
  /\ readers[s].st = "none"
  /\ writers' = [writers EXCEPT ![s] = WriterOf(m, @)]
  /\ UNCHANGED <<m, args, readers>>

\* compressWriter.Write(p).  A session writes first and reads afterwards:
\* the reader is given the bytes the sink holds when Reader is called
\* (bytes.NewReader(compressedBuf.Bytes())), so the writer's calls stop
\* once the session has a reader.
Write(s, p) ==
  /\ writers[s].st = "open"
  /\ readers[s].st = "none"
  /\ Len(writers[s].written) + Len(p) <= MaxLen
  /\ writers[s].nw < MaxWrites
  /\ writers' = [writers EXCEPT ![s] = EncWrite(@, p)]
  /\ UNCHANGED <<m, args, readers>>

\* compressWriter.(io.Closer).Close()
Close(s) ==
  /\ writers[s].st = "open"
  /\ writers[s].hasClose
  /\ readers[s].st = "none"
  /\ writers' = [writers EXCEPT ![s] = WriteCloserClose(@)]
  /\ UNCHANGED <<m, args, readers>>

\* Write on a wrapper that was closed.  The wrapper keeps no flag of its
\* own, the call goes to the closed encoder: whether that one reports an
\* error or takes the bytes is the library's; nothing reaches the sink.
WriteAfterClose(s, outcome) ==
  /\ writers[s].st = "closed"
  /\ readers[s].st = "none"
  /\ writers' = [writers EXCEPT ![s].post = outcome]
  /\ UNCHANGED <<m, args, readers>>

\* decompressReader := mw.Reader(bytes.NewReader(src))
Reader(s, mw, src) ==
  /\ readers[s].st \in {"none", "panic"}
  /\ readers' = [readers EXCEPT ![s] = ReaderOf(mw, src)]
  /\ UNCHANGED <<m, args, writers>>

\* decompressReader.Read(buf)
Read(s) ==
  /\ readers[s].st \in {"open", "eof", "err"}
  /\ readers' = [readers EXCEPT ![s] = ReaderRead(@)]
  /\ UNCHANGED <<m, args, writers>>

\* decompressReader.(io.Closer).Close(), when the reader has one
CloseReader(s) ==
  /\ readers[s].st \in {"open", "eof", "err"}
  /\ readers[s].hasClose
  /\ readers' = [readers EXCEPT ![s] = ReaderClose(@)]
  /\ UNCHANGED <<m, args, writers>>

(* ---- one session, any source, any order of calls ---- *)
Next ==
  \/ Writer("s1")
  \/ \E p \in SeqsUpTo(Byte, MaxLen) : Write("s1", p)
  \/ Close("s1")
  \/ \E outcome \in {"err", "ok"} : WriteAfterClose("s1", outcome)
  \/ \E src \in {writers["s1"].sink} \cup Damaged(writers["s1"].sink),
          l \in Levels :
       \* any adapter of the same algorithm, whatever its level
       Reader("s1", New(m.algorithm, <<l>>), src)
  \/ Read("s1")
  \/ CloseReader("s1")

Spec == Init /\ [][Next]_vars

(* ---- New alone: any algorithm value, any list of options ---- *)
NextNew ==
  \E a \in AlgorithmValues, opts \in SeqsUpTo(LevelValues, MaxOpts) :
    NewCall(a, opts) /\ UNCHANGED <<writers, readers>>

SpecNew == Init /\ [][NextNew]_vars

(* ---- two sessions of one adapter, their steps interleaved ---- *)
InitSessions ==
  /\ \E a \in Algorithms :
       /\ m = New(a, <<>>)
       /\ args = [algorithm |-> a, opts |-> <<>>]
  /\ writers = [s \in Sessions |-> NoWriter]
  /\ readers = [s \in Sessions |-> NoReader]

NextSessions ==
  \E s \in Sessions :
    \/ Writer(s)
    \/ \E p \in SeqsUpTo(Byte, MaxLen) \ {<<>>} : Write(s, p)
    \/ Close(s)
    \/ writers[s].st = "closed" /\ Reader(s, m, writers[s].sink)
    \/ Read(s)

SpecSessions == InitSessions /\ [][NextSessions]_vars

(* ======================= the claims ======================= *)

(* C1: round trip.  For each of the six algorithms and each of the four
   levels, whatever was written to the writer and finalized is read back
   from the sink's contents, by a reader of any adapter of the same
   algorithm: no panic, no error at any read, the bytes read are the bytes
   written, and reading on ends at end-of-stream with exactly them. *)
C1_RoundTrip ==
  LET w == writers["s1"]
      r == readers["s1"] IN
  (m.algorithm \in Algorithms /\ m.level \in Levels) =>
    /\ w.st # "panic"
    /\ (w.st = "closed" /\ r.st # "none" /\ r.src = w.sink /\ ~r.released) =>
         /\ r.st \in {"open", "eof"}
         /\ r.last # "err"
         /\ r.st = "eof" => r.out = w.written
         /\ ReadAll(r).st = "eof"
         /\ ReadAll(r).out = w.written

C1_Witness ==
  /\ m.algorithm = Zlib /\ m.level = Better
  /\ writers["s1"].st = "closed"
  /\ Len(writers["s1"].written) = MaxLen
  /\ readers["s1"].st = "eof"
  /\ readers["s1"].src = writers["s1"].sink
  /\ readers["s1"].out = writers["s1"].written

(* C2: chunked writes.  However the plaintext reached the writer, in one
   Write or in several of any sizes, the finalized sink decompresses
   without error to the concatenation of the chunks, which is what the
   output of a single Write of the whole plaintext decompresses to. *)
C2_ChunkedWrites ==
  LET w == writers["s1"] IN
  (m.algorithm \in Algorithms /\ w.st = "closed") =>
    LET chunked == Decompress(m, w.sink)
        single == Decompress(m, Compress(m, w.written).sink) IN
    /\ chunked.st = "eof"
    /\ single.st = "eof"
    /\ chunked.out = w.written
    /\ chunked.out = single.out

C2_Witness ==
  /\ m.algorithm = S2
  /\ writers["s1"].st = "closed"
  /\ writers["s1"].nw = 3
  /\ writers["s1"].written = <<0, 1, 1>>
  /\ Len(writers["s1"].sink) = 3
  /\ readers["s1"].st = "eof"
  /\ readers["s1"].out = <<0, 1, 1>>

\* the sink decodes, without error, to exactly bs
Decodable(mw, sink, bs) ==
  LET r == Decompress(mw, sink) IN r.st = "eof" /\ r.out = bs

(* C3 as stated: for gzip, zstd, zlib and raw deflate, while the writer is
   not finalized the sink never decodes without error to the data
   written, and after Close it does. *)
C3_Original ==
  LET w == writers["s1"] IN
  m.algorithm \in {Gzip, Zstd, Zlib, Flate} =>
    /\ w.st = "open" => ~Decodable(m, w.sink, w.written)
    /\ w.st = "closed" => Decodable(m, w.sink, w.written)

(* C3, amended: the same for gzip, zlib and raw deflate in every case and
   for zstd once a byte has been written.  A zstd writer that has been
   given no byte leaves the sink empty, before Close as after it, and the
   empty sink is already the complete stream of the empty data. *)
C3_FinalizeMandatory ==
  LET w == writers["s1"] IN
  m.algorithm \in {Gzip, Zstd, Zlib, Flate} =>
    /\ (w.st = "open" /\ ~(m.algorithm = Zstd /\ w.written = <<>>)) =>
         ~Decodable(m, w.sink, w.written)
    /\ (w.st = "open" /\ m.algorithm = Zstd /\ w.written = <<>>) =>
         w.sink = <<>> /\ Decodable(m, w.sink, <<>>)
    /\ w.st = "closed" => Decodable(m, w.sink, w.written)

C3_Witness ==
  /\ m.algorithm = Zstd
  /\ writers["s1"].st = "open"
  /\ Len(writers["s1"].sink) = 2
  /\ readers["s1"].src = writers["s1"].sink
  /\ readers["s1"].st = "err"
  /\ readers["s1"].out # <<>>

(* C4: an algorithm value outside the six.  New makes the adapter all the
   same, with that value; every Writer call and every Reader call on it
   panics with "unsupported compression algorithm", no wrapper of any
   codec comes back and the sink stays empty. *)
C4_Unsupported ==
  /\ m.algorithm = args.algorithm
  /\ m.algorithm \notin Algorithms =>
       \A s \in Sessions :
         /\ writers[s].st \in {"none", "panic"}
         /\ writers[s].st = "panic" =>
              writers[s].msg = "unsupported compression algorithm"
         /\ writers[s].sink = <<>>
         /\ readers[s].st \in {"none", "panic"}
         /\ readers[s].st = "panic" =>
              readers[s].msg = "unsupported compression algorithm"

C4_Witness ==
  /\ m.algorithm = BadAlgorithm
  /\ writers["s1"].st = "panic"
  /\ readers["s1"].st = "panic"
  /\ writers["s1"].sink = <<>>

\* the complete streams an encoder of alg can produce
ValidStreams(alg) ==
  {Compress(New(alg, <<l>>), bs).sink :
     l \in LevelValues, bs \in SeqsUpTo(Byte, MaxLen)}
ValidGzip == ValidStreams(Gzip)
ValidZlib == ValidStreams(Zlib)

Rejected(r) ==
  \/ r.st = "panic" /\ r.msg \in {"failed to create gzip reader",
                                 "failed to create zlib reader"}
  \/ /\ r.st \in {"open", "err"}
     /\ r.last # "eof"
     /\ ReadAll(r).st = "err"

\* Reader returns a reader only when the header parsed
HeaderChecked(r) ==
  r.st \in {"open", "eof", "err"} =>
    r.src # <<>> /\ r.src[1] = Hdr(m.algorithm)

(* C5 as stated: for gzip and zlib a source that is not a valid container
   is rejected, by a panic of Reader when the header does not parse and by
   an error of a read otherwise; end-of-stream is never reported. *)
C5_Original ==
  LET r == readers["s1"] IN
  (m.algorithm \in {Gzip, Zlib} /\ r.st # "none" /\ ~r.released) =>
    /\ HeaderChecked(r)
    /\ (m.algorithm = Gzip /\ r.src \notin ValidGzip) => Rejected(r)
    /\ (m.algorithm = Zlib /\ r.src \notin ValidZlib) => Rejected(r)

StartsWithValidZlib(src) ==
  \E k \in 1..Len(src) : SubSeq(src, 1, k) \in ValidZlib

(* C5, amended: as stated for gzip; for zlib a source is rejected when it
   does not begin with a complete valid stream.  The zlib reader stops at
   the trailer: bytes after a complete stream are never read, and such a
   source decodes without error to the data of that stream. *)
C5_CorruptRejected ==
  LET r == readers["s1"] IN
  (m.algorithm \in {Gzip, Zlib} /\ r.st # "none" /\ ~r.released) =>
    /\ HeaderChecked(r)
    /\ (m.algorithm = Gzip /\ r.src \notin ValidGzip) => Rejected(r)
    /\ (m.algorithm = Zlib /\ ~StartsWithValidZlib(r.src)) => Rejected(r)
    /\ (m.algorithm = Zlib /\ StartsWithValidZlib(r.src)) =>
         ReadAll(r).st = "eof"

C5_Witness ==
  /\ m.algorithm = Gzip
  /\ readers["s1"].st = "err"
  /\ readers["s1"].ek = "frame"
  /\ readers["s1"].out # <<>>
  /\ readers["s1"].src # writers["s1"].sink
  /\ Len(readers["s1"].src) = Len(writers["s1"].sink)
  /\ readers["s1"].src \notin ValidGzip

(* C6: session independence.  The adapter stays as New made it whatever
   Writer and Reader calls are made on it, and for two sessions of it,
   their steps interleaved in any order, the sink of each holds what its
   own plaintext alone compresses to and its reader gives back exactly
   that plaintext, without error. *)
C6_SessionIndependence ==
  /\ m = New(args.algorithm, args.opts)
  /\ \A s \in Sessions :
       LET w == writers[s]
           r == readers[s] IN
       /\ w.st = "closed" => w.sink = Compress(m, w.written).sink
       /\ r.st # "none" =>
            /\ r.src = w.sink
            /\ r.st \in {"open", "eof"}
            /\ r.st = "eof" => r.out = w.written
            /\ ReadAll(r).st = "eof"
            /\ ReadAll(r).out = w.written

C6_Witness ==
  /\ writers["s1"].st = "open"
  /\ writers["s1"].written = <<0>>
  /\ writers["s2"].written = <<1, 1, 0>>
  /\ readers["s2"].st = "eof"
  /\ readers["s2"].out = <<1, 1, 0>>

(* C7: level translation.  The native level the encoder was made with is,
   for gzip, zlib and raw deflate, 1 for Fastest, -1 for Default, 8 for
   Better and 9 for Best; for zstd the four speeds in their order; Better
   lies strictly below Best; for s2 and snappy the writer and its output
   are the same for all four levels. *)
C7_LevelTranslation ==
  LET w == writers["s1"] IN
  /\ DeflateLevel(Better) < DeflateLevel(Best)
  /\ ZstdLevel(Better) < ZstdLevel(Best)
  /\ (m.algorithm \in Algorithms /\ m.level \in Levels
        /\ w.st \in {"open", "closed"}) =>
       /\ m.algorithm \in DeflateFamily =>
            w.nlevel = (CASE m.level = Fastest -> 1
                          [] m.level = Default -> -1
                          [] m.level = Better -> 8
                          [] m.level = Best -> 9)
       /\ m.algorithm = Zstd =>
            w.nlevel = (CASE m.level = Fastest -> SpeedFastest
                          [] m.level = Default -> SpeedDefault
                          [] m.level = Better -> SpeedBetterCompression
                          [] m.level = Best -> SpeedBestCompression)
       /\ m.algorithm \in {S2, Snappy} =>
            \A l \in Levels :
              /\ WriterOf(New(m.algorithm, <<l>>), NoWriter) = WriterOf(m, NoWriter)
              /\ w.st = "closed" =>
                   w.sink = Compress(New(m.algorithm, <<l>>), w.written).sink

C7_Witness ==
  /\ m.algorithm = Flate /\ m.level = Better
  /\ writers["s1"].st = "open"
  /\ writers["s1"].nlevel = 8

(* C8: construction.  The adapter has the algorithm given to New; its
   level is Default when no option was given and otherwise the level of
   the last WithLevel option. *)
C8_Construction ==
  /\ m.algorithm = args.algorithm
  /\ m.level = IF args.opts = <<>> THEN Default
               ELSE args.opts[Len(args.opts)]

C8_Witness ==
  /\ args.algorithm = Snappy
  /\ args.opts = <<Best, Fastest>>
  /\ m.level = Fastest

(* C9 as stated: every writer returned has a Close, every reader returned
   has a Close, and Close of a reader other than zstd's never reports a
   failure. *)
C9_Original ==
  LET w == writers["s1"]
      r == readers["s1"] IN
  /\ w.st \in {"open", "closed"} => w.hasClose
  /\ r.st \in {"open", "eof", "err"} =>
       /\ r.hasClose
       /\ r.alg # Zstd => r.rel # "err"

(* C9, amended: every writer returned has a Close.  The readers of gzip,
   zstd, zlib and raw deflate have a Close, those of s2 and snappy have
   none.  Where there is one it can be called before any read, in the
   middle, at end-of-stream and after an error; zstd's always reports no
   failure; that of gzip, zlib and raw deflate reports a failure only when
   a read has failed before. *)
C9_UniformClose ==
  LET w == writers["s1"]
      r == readers["s1"] IN
  /\ w.st \in {"open", "closed"} => w.hasClose
  /\ r.st \in {"open", "eof", "err"} =>
       /\ r.hasClose <=> r.alg \in {Gzip, Zstd, Zlib, Flate}
       /\ r.released => r.rel \in {"nil", "err"}
       /\ r.alg = Zstd => r.rel # "err"
       /\ r.rel = "err" => r.st = "err"

C9_Witness ==
  /\ readers["s1"].alg = Zstd
  /\ readers["s1"].st = "err"
  /\ readers["s1"].released
  /\ readers["s1"].rel = "nil"

(* C10, the part about readers: once a reader has been released, no later
   read on it returns data.  (The claim asks for more: that the read
   reports an error.) *)
C10_NoDataAfterRelease ==
  \A s \in Sessions : readers[s].released => readers[s].post # "data"

(* C11: a level outside the four.  WithLevel and New take it as it is, so
   the adapter holds it.  At Writer no case of the level switch matches
   and the native level is 0: Writer panics if and only if the algorithm
   is zstd, with the message of the failed zstd constructor; for gzip,
   zlib and raw deflate it returns a writer of native level 0, which
   stores the data uncompressed; for s2 and snappy it returns the writer
   it returns for any level. *)
C11_OutOfRangeLevel ==
  LET w == writers["s1"] IN
  (args.opts # <<>> /\ args.opts[Len(args.opts)] \notin Levels) =>
    /\ m.level = args.opts[Len(args.opts)]
    /\ (m.algorithm \in Algorithms /\ w.st # "none") =>
         /\ w.st = "panic" <=> m.algorithm = Zstd
         /\ w.st = "panic" => w.msg = "failed to create zstd writer" /\ w.sink = <<>>
         /\ m.algorithm \in DeflateFamily =>
              /\ w.nlevel = 0
              /\ IsStored(w)
              /\ \A i \in 1..Len(w.sink) :
                   w.sink[i].k = "blk" => w.sink[i].d = Stored(Expand(w.sink[i].d))
         /\ m.algorithm \in {S2, Snappy} =>
              WriterOf(m, NoWriter) = WriterOf(New(m.algorithm, <<>>), NoWriter)

C11_Witness ==
  /\ m.algorithm = Zstd
  /\ m.level = Best + 1
  /\ writers["s1"].st = "panic"
  /\ writers["s1"].msg = "failed to create zstd writer"

====
